---- MODULE Spec2Model ----
(***************************************************************************)
(* Model of DistributedPrivateKey (cluster_crypto/distributed_private_key). *)
(* A node owns a private key, the locations holding copies of it, the       *)
(* signees it signed and an optional link to its public-key entity.         *)
(* regenerate replaces the key and cascades; commit_to_etcd_and_disk        *)
(* writes the key's PEM into every recorded location.                       *)
(***************************************************************************)
EXTENDS Integers, Sequences, FiniteSets, TLC

\* ------------------------------------------------------------------ bounds

\* Entries the key pool holds for the 2048-bit bucket at start.
PoolSize == 2

\* ------------------------------------------------------- program constants

\* Variant: the overhead is taken eight times over, as if counted in bytes.
DerOverheadBitsAsBytes == 304 * 8

\* Fixed encoding overhead subtracted in the bit-size computation.
DerOverheadBits == 304

\* ------------------------------------------------------------ the universe

NoPub == "none"
Paths == {"f1", "f2", "f3"}
StoreKeys == {"k1"}
Ptrs == {"p1", "p2", "p3"}
BucketSizes == {0, 2048, 4096}

\* keys::PrivateKey: the tagged union {Rsa, Ec}; id stands for the key bytes.
RsaKey(id, bits) == [fam |-> "Rsa", id |-> id, bits |-> bits]
EcKey(id) == [fam |-> "Ec", id |-> id, bits |-> 256]

\* Length in bytes of the encoded (DER, SubjectPublicKeyInfo) RSA public key
\* of a key of the given modulus size: the modulus and the fixed fields
\* around it, whose length prefixes grow with the modulus (294 bytes for 2048
\* bits, 550 for 4096, 162 for 1024).
EncodedLen(bits) ==
    bits \div 8 + (IF bits >= 2048 THEN 38 ELSE IF bits >= 1024 THEN 34 ELSE 30)

\* keys::PublicKey::try_from(&PrivateKey): the public half, as encoded bytes.
PublicKeyOf(k) ==
    [fam |-> k.fam, of |-> k.id,
     len |-> IF k.fam = "Rsa" THEN EncodedLen(k.bits) ELSE 91]

\* pem::Pem: a label and the encoded bytes (the key id stands for the bytes).
Pem(label, der) == [label |-> label, der |-> der]
NoPem == Pem("", 0)
Cert(id) == Pem("CERTIFICATE", id)

\* keys::PrivateKey::pem, used for store resources.
KeyPem(k) ==
    IF k.fam = "Rsa" THEN Pem("RSA PRIVATE KEY", k.id)
    ELSE Pem("EC PRIVATE KEY", k.id)

\* The PEM block built at the head of commit_filesystem_private_key.
PrivateKeyPem(k) ==
    IF k.fam = "Rsa" THEN Pem("RSA PRIVATE KEY", k.id)
    ELSE Pem("EC PRIVATE KEY", k.id)

\* ---------------------------------------------------------------- locations

\* locations::Location, all variants in one record shape.
\*   kind   "K8s" | "File"
\*   at     store key or file path
\*   shape  "Raw" | "Yaml"   (FileContentLocation; a K8s location is Yaml)
\*   vtype  "Pem" | "Jwt" | "Unknown"   (LocationValueType of a Raw location)
\*   idx    pem_bundle_index (zero-based), ptr the YAML path
K8sLoc(key, ptr) ==
    [kind |-> "K8s", at |-> key, shape |-> "Yaml", vtype |-> "Pem",
     idx |-> 0, ptr |-> ptr]
RawLoc(path, vtype, idx) ==
    [kind |-> "File", at |-> path, shape |-> "Raw", vtype |-> vtype,
     idx |-> idx, ptr |-> ""]
YamlLoc(path, ptr) ==
    [kind |-> "File", at |-> path, shape |-> "Yaml", vtype |-> "Pem",
     idx |-> 0, ptr |-> ptr]

\* ------------------------------------------------------------------ storage

\* The content of a file or of a store resource.
\*   form  "bundle" (concatenated PEM blocks) | "yaml" (a document) |
\*         "other" (neither) | "absent"
Bundle(blocks) ==
    [form |-> "bundle", blocks |-> blocks, doc |-> [p \in Ptrs |-> NoPem],
     enc |-> "Text"]
Doc(doc, enc) == [form |-> "yaml", blocks |-> <<>>, doc |-> doc, enc |-> enc]
Other == [form |-> "other", blocks |-> <<>>, doc |-> [p \in Ptrs |-> NoPem],
          enc |-> "Text"]
Absent == [form |-> "absent", blocks |-> <<>>, doc |-> [p \in Ptrs |-> NoPem],
           enc |-> "Text"]

\* ----------------------------------------------------------------- key pool

\* rsa_key_pool::RsaKeyPool: per bit size, a stack of (private key, key-pair
\* handle) entries. A handle is identified by the id of the key it wraps.
PoolEntry(k) == [priv |-> k, pair |-> k.id]
NoEntry == [priv |-> RsaKey(0, 0), pair |-> 0]

\* RsaKeyPool::get(bits): pops the bucket's last entry, or finds none.
PoolHas(pool, bits) == bits \in DOMAIN pool /\ Len(pool[bits]) > 0
PoolTop(pool, bits) == pool[bits][Len(pool[bits])]
PoolPop(pool, bits) ==
    [pool EXCEPT ![bits] = SubSeq(pool[bits], 1, Len(pool[bits]) - 1)]

\* ------------------------------------------------------------------ signees

\* signee::Signee: signedBy is the handle (key id) whose signature it carries;
\* ownBits > 0 when the signee embeds a key of its own, ownKey its id.
Signee(signedBy, ownKey, ownBits) ==
    [signedBy |-> signedBy, ownKey |-> ownKey, ownBits |-> ownBits]

\* Signee::regenerate(old_public_key, new_key_pair, pool, rules).
\* fails: whether this call is made to fail (its reasons are the signee's).
\* A signee with a key of its own draws a fresh one from the pool first, and
\* fails when the pool has none.
SigneeRegenerate(s, oldPub, pair, pool, fails) ==
    IF fails THEN [ok |-> FALSE, signee |-> s, pool |-> pool]
    ELSE IF s.ownBits = 0
    THEN [ok |-> TRUE, signee |-> [s EXCEPT !.signedBy = pair], pool |-> pool]
    ELSE IF ~PoolHas(pool, s.ownBits)
    THEN [ok |-> FALSE, signee |-> s, pool |-> pool]
    ELSE [ok |-> TRUE,
          signee |-> [s EXCEPT !.signedBy = pair,
                               !.ownKey = PoolTop(pool, s.ownBits).priv.id],
          pool |-> PoolPop(pool, s.ownBits)]

\* Option<Rc<RefCell<DistributedPublicKey>>> as seen by one call: whether the
\* node has an associated entity, and the public key the entity holds.
SomePub(val) == [present |-> TRUE, val |-> val]
NonePub == [present |-> FALSE, val |-> PublicKeyOf(RsaKey(0, 0))]

\* DistributedPublicKey::regenerate(&PrivateKey): the entity takes the public
\* half of the key it is given.
PublicKeyRegenerate(pk, privateKey) == SomePub(PublicKeyOf(privateKey))

\* --------------------------------------------------------------- regenerate

\* The inputs of one regenerate call that the node does not decide:
\*   derive   whether PublicKey::try_from(&self.key) succeeds
\*   failAt   the position of the signee that fails (0: none is made to fail)
\*   pubFails whether the public-key entity's regenerate fails
RegenInput(derive, failAt, pubFails) ==
    [derive |-> derive, failAt |-> failAt, pubFails |-> pubFails]

RegenInputs(nSignees, hasPub) ==
    {RegenInput(FALSE, 0, FALSE)}
    \cup {RegenInput(TRUE, i, FALSE) : i \in 1..nSignees}
    \cup {RegenInput(TRUE, 0, f) : f \in IF hasPub THEN BOOLEAN ELSE {FALSE}}

\* Variant: the byte length is not turned into bits before the subtraction.
NumBitsInBytes(pub) ==
    IF pub.fam = "Rsa" THEN pub.len - DerOverheadBits ELSE 0

\* let num_bits = match &original_signing_public_key { ... }
\* The arithmetic is on usize. A result below zero stands for the underflow
\* of bytes.len() * 8 - 304: the value wrapped by 2^64 in a release build,
\* the panic of a debug build.
NumBits(pub) ==
    IF pub.fam = "Rsa" THEN pub.len * 8 - DerOverheadBits ELSE 0

\* Variant: each signee is given the handle on top of the pool at its turn.
SigningPairRedrawn(entry, pool, bits) ==
    IF PoolHas(pool, bits) THEN PoolTop(pool, bits).pair ELSE entry.pair

\* The key-pair handle each signee is given: Some(&self_new_key_pair), the
\* one drawn for the node.
SigningPair(entry, pool, bits) == entry.pair

\* for signee in &mut self.signees { signee.regenerate(...)?; }
\* Runs from position i; stops at the first failure, keeping what was done.
RECURSIVE RegenSignees(_, _, _, _, _, _, _)
RegenSignees(ss, i, oldPub, entry, bits, pool, failAt) ==
    IF i > Len(ss)
    THEN [ok |-> TRUE, signees |-> ss, pool |-> pool, failIdx |-> 0,
          invoked |-> Len(ss)]
    ELSE LET r == SigneeRegenerate(ss[i], oldPub,
                      SigningPair(entry, pool, bits), pool,
                      i = failAt)
             ss2 == [ss EXCEPT ![i] = r.signee]
         IN  IF r.ok
             THEN RegenSignees(ss2, i + 1, oldPub, entry, bits, r.pool,
                               failAt)
             ELSE [ok |-> FALSE, signees |-> ss2, pool |-> r.pool,
                   failIdx |-> i, invoked |-> i]

\* Variant: the assignment to self.key is missing.
InstalledKeyKept(old, entry) == old

\* Variant: the new key is wrapped in the variant of the key it replaces.
InstalledKeyFamilyKept(old, entry) ==
    [fam |-> old.fam, id |-> entry.priv.id, bits |-> entry.priv.bits]

\* self.key = PrivateKey::Rsa(self_new_rsa_private_key);
InstalledKey(old, entry) == RsaKey(entry.priv.id, entry.priv.bits)

\* Variant: the flag is flipped by each regeneration.
RegeneratedFlagToggled(old) == ~old

\* self.regenerated = true;
RegeneratedFlag(old) == TRUE

\* Variant: the entity is regenerated before self.key is assigned.
PublicKeyArgStale(oldKey, newKey) == oldKey

\* The key handed to the public-key entity: &self.key, read after the
\* assignment, so the new key.
PublicKeyArg(oldKey, newKey) == newKey

\* Variant: regenerated is set before the pool is asked.
AfterPoolMissMarked(self) == [self EXCEPT !.regenerated = TRUE]

\* What regenerate leaves behind when the pool has no entry: the `?` after
\* rsa_key_pool.get returns before anything is assigned.
AfterPoolMiss(self) == self

\* Variant: self.key is assigned before the signee loop.
AfterSigneeFailureKeyInstalled(self, ss, entry) ==
    [self EXCEPT !.signees = ss, !.key = RsaKey(entry.priv.id, entry.priv.bits)]

\* Variant: the signees are restored when one of them fails.
AfterSigneeFailureRolledBack(self, ss, entry) == self

\* What regenerate leaves behind when a signee fails: the `?` in the loop
\* returns before self.key is assigned; the signees keep what the loop did.
AfterSigneeFailure(self, ss, entry) == [self EXCEPT !.signees = ss]

\* Variant: the node is put back as it was when the entity fails.
AfterPublicKeyFailureRolledBack(old, new) == old

\* What regenerate leaves behind when the public-key entity fails: the `?`
\* returns after self.key and self.regenerated were assigned and the signees
\* re-signed; nothing is put back.
AfterPublicKeyFailure(old, new) == new

\* One operation of a regenerate call, in the order the call performs them:
\*   op   "derive" | "draw" | "signee" | "assign" | "pub"
\*   key  self.key at the time of the operation
\*   pub  the public key the operation yields ("derive") or is given
\*   n    the bit size asked for ("draw"), the signee's position ("signee")
Step(op, keyNow, pub, n) == [op |-> op, key |-> keyNow, pub |-> pub, n |-> n]

\* Variant: self.key is assigned before the signee loop.
KeyDuringSigneesInstalled(old, entry) == RsaKey(entry.priv.id, entry.priv.bits)

\* self.key while the signee loop runs: the assignment comes after the loop.
KeyDuringSignees(old, entry) == old

\* DistributedPrivateKey::regenerate as a function of the node (key, signees,
\* regenerated), the pool, the associated public key (NonePub or SomePub) and
\* the inputs. The result carries the new node, pool and public key, and what
\* the call did.
regenerate(self, pool, pk, in) ==
    LET oldPub == PublicKeyOf(self.key)
        bits == NumBits(oldPub)
        quiet == [ok |-> FALSE, err |-> "", self |-> self, pool |-> pool,
                  pk |-> pk, numBits |-> -1, drew |-> FALSE,
                  entry |-> NoEntry, invoked |-> 0, failIdx |-> 0,
                  pkCalled |-> FALSE, pkArg |-> self.key, wrapped |-> FALSE,
                  steps |-> <<Step("derive", self.key, oldPub, 0)>>]
        asked == Append(quiet.steps, Step("draw", self.key, oldPub, bits))
    IN
    IF ~in.derive THEN [quiet EXCEPT !.err = "derive"]
    ELSE IF bits < 0
    THEN [quiet EXCEPT !.err = "underflow", !.numBits = bits,
                       !.wrapped = TRUE]
    ELSE IF ~PoolHas(pool, bits)
    THEN [quiet EXCEPT !.err = "RSA pool empty", !.numBits = bits,
                       !.self = AfterPoolMiss(self), !.steps = asked]
    ELSE
    LET entry == PoolTop(pool, bits)
        pool1 == PoolPop(pool, bits)
        sr == RegenSignees(self.signees, 1, oldPub, entry, bits, pool1,
                           in.failAt)
        drawn == [quiet EXCEPT !.numBits = bits, !.drew = TRUE,
                               !.entry = entry, !.pool = sr.pool,
                               !.invoked = sr.invoked,
                               !.steps = asked \o
                                   [j \in 1..sr.invoked |->
                                       Step("signee",
                                            KeyDuringSignees(self.key, entry),
                                            oldPub, j)]]
    IN
    IF ~sr.ok
    THEN [drawn EXCEPT !.err = "signee", !.failIdx = sr.failIdx,
                       !.self = AfterSigneeFailure(self, sr.signees, entry)]
    ELSE
    LET newKey == InstalledKey(self.key, entry)
        self2 == [key |-> newKey, signees |-> sr.signees,
                  regenerated |-> RegeneratedFlag(self.regenerated)]
        arg == PublicKeyArg(self.key, newKey)
        assigned == Append(drawn.steps,
                           Step("assign", self2.key, PublicKeyOf(newKey), 0))
        paired == Append(assigned, Step("pub", self2.key, PublicKeyOf(arg), 0))
    IN
    IF ~pk.present
    THEN [drawn EXCEPT !.ok = TRUE, !.self = self2, !.steps = assigned]
    ELSE IF in.pubFails
    THEN [drawn EXCEPT !.err = "public key",
                       !.self = AfterPublicKeyFailure(self, self2),
                       !.pkCalled = TRUE, !.pkArg = arg, !.steps = paired]
    ELSE [drawn EXCEPT !.ok = TRUE, !.self = self2, !.pkCalled = TRUE,
                       !.pkArg = arg, !.pk = PublicKeyRegenerate(pk, arg),
                       !.steps = paired]

\* ------------------------------------------------------------------- commit

\* pem_utils::pem_bundle_replace_pem_at_index(bundle_text, index, new_block):
\* parses the text into blocks and replaces the one at the zero-based index.
PemBundleReplace(content, idx, pem) ==
    IF content.form = "bundle" /\ idx < Len(content.blocks)
    THEN [ok |-> TRUE,
          content |-> Bundle([content.blocks EXCEPT ![idx + 1] = pem])]
    ELSE [ok |-> FALSE, content |-> content]

\* file_utils::recreate_yaml_at_location_with_new_pem(resource, yaml_location,
\* new_pem, encoding): sets the value at the path and serializes the whole
\* document in the given encoding ("Json" | "Yaml").
RecreateYaml(content, ptr, pem, enc) ==
    IF content.form = "yaml" /\ ptr \in DOMAIN content.doc
                             /\ content.doc[ptr] # NoPem
    THEN [ok |-> TRUE,
          content |-> Doc([content.doc EXCEPT ![ptr] = pem], enc)]
    ELSE [ok |-> FALSE, content |-> content]

\* One access to storage, as logged by a commit.
Access(act, at) == [act |-> act, at |-> at]

\* commit_k8s_private_key: get the resource, rewrite it as JSON, put it back.
\* fault: "none" | "read" (the get fails) | "write" (put cannot fail).
commit_k8s_private_key(key, etcd, loc, fault) ==
    LET rd == <<Access("read", loc.at)>>
        rw == RecreateYaml(etcd[loc.at], loc.ptr, KeyPem(key), "Json")
    IN
    IF fault = "read" \/ etcd[loc.at].form = "absent"
    THEN [ok |-> FALSE, err |-> "get", etcd |-> etcd, log |-> rd]
    ELSE IF ~rw.ok
    THEN [ok |-> FALSE, err |-> "rewrite", etcd |-> etcd, log |-> rd]
    ELSE [ok |-> TRUE, err |-> "",
          etcd |-> [etcd EXCEPT ![loc.at] = rw.content],
          log |-> rd \o <<Access("write", loc.at)>>]

\* Variant: the first block is replaced whatever the location records.
ReplaceIndexFirst(loc) == 0

\* The bundle index a Raw(Pem) location is rewritten at: pem_bundle_index.
ReplaceIndex(loc) == loc.idx

\* Variant: every value type of a Raw location is treated as Pem.
RawValueAny(loc) == TRUE

\* match &pem_location_info { LocationValueType::Pem(..) => .., _ => bail!(..) }
RawValueIsPem(loc) == loc.vtype = "Pem"

\* Variant: the new block alone is written, not the bundle it belongs to.
RawFileContentPemOnly(cur, idx, pem) ==
    [ok |-> TRUE, content |-> Bundle(<<pem>>)]

\* The content written for a Raw(Pem) location: the whole bundle read from the
\* file, with the block at the index replaced.
RawFileContent(cur, idx, pem) == PemBundleReplace(cur, idx, pem)

\* commit_filesystem_private_key: the new content of the file is computed
\* (read and rewrite, by the location's shape) and then written to the path.
\* fault: "none" | "read" | "write"; a failed write leaves the file as it was.
commit_filesystem_private_key(key, files, loc, fault) ==
    LET pem == PrivateKeyPem(key)
        rd == <<Access("read", loc.at)>>
        cur == files[loc.at]
        new == IF loc.shape = "Raw"
               THEN RawFileContent(cur, ReplaceIndex(loc), pem)
               ELSE RecreateYaml(cur, loc.ptr, pem, "Yaml")
    IN
    IF loc.shape = "Raw" /\ ~RawValueIsPem(loc)
    THEN [ok |-> FALSE, err |-> "cannot commit non-PEM to filesystem",
          files |-> files, log |-> <<>>]
    ELSE IF fault = "read" \/ cur.form = "absent"
    THEN [ok |-> FALSE, err |-> "read", files |-> files, log |-> rd]
    ELSE IF ~new.ok
    THEN [ok |-> FALSE, err |-> "rewrite", files |-> files, log |-> rd]
    ELSE IF fault = "write"
    THEN [ok |-> FALSE, err |-> "write", files |-> files,
          log |-> rd \o <<Access("write", loc.at)>>]
    ELSE [ok |-> TRUE, err |-> "",
          files |-> [files EXCEPT ![loc.at] = new.content],
          log |-> rd \o <<Access("write", loc.at)>>]

\* One location of the loop in commit_to_etcd_and_disk, by its variant.
CommitLocation(key, files, etcd, loc, fault) ==
    IF loc.kind = "K8s"
    THEN LET r == commit_k8s_private_key(key, etcd, loc, fault)
         IN  [ok |-> r.ok, err |-> r.err, files |-> files, etcd |-> r.etcd,
              log |-> r.log]
    ELSE LET r == commit_filesystem_private_key(key, files, loc, fault)
         IN  [ok |-> r.ok, err |-> r.err, files |-> r.files, etcd |-> etcd,
              log |-> r.log]

\* The accesses of the location at position i, stamped with the position.
Stamp(log, i) ==
    [j \in 1..Len(log) |-> [act |-> log[j].act, at |-> log[j].at, pos |-> i]]

\* Variant: every location is attempted and the first error reported at the
\* end.
RECURSIVE CommitLocationsAll(_, _, _, _, _, _, _, _)
CommitLocationsAll(key, order, i, files, etcd, log, failAt, fault) ==
    IF i > Len(order)
    THEN [ok |-> TRUE, err |-> "", failIdx |-> 0, files |-> files,
          etcd |-> etcd, log |-> log]
    ELSE LET r == CommitLocation(key, files, etcd, order[i],
                                 IF i = failAt THEN fault ELSE "none")
             rest == CommitLocationsAll(key, order, i + 1, r.files, r.etcd,
                                        log \o Stamp(r.log, i), failAt, fault)
         IN  IF r.ok THEN rest
             ELSE [rest EXCEPT !.ok = FALSE, !.err = r.err, !.failIdx = i]

\* commit_to_etcd_and_disk: the locations in iteration order, each committed
\* in turn, `?` returning at the first failure. failAt is the position the
\* fault is injected at (0: nowhere).
RECURSIVE CommitLocations(_, _, _, _, _, _, _, _)
CommitLocations(key, order, i, files, etcd, log, failAt, fault) ==
    IF i > Len(order)
    THEN [ok |-> TRUE, err |-> "", failIdx |-> 0, files |-> files,
          etcd |-> etcd, log |-> log]
    ELSE LET r == CommitLocation(key, files, etcd, order[i],
                                 IF i = failAt THEN fault ELSE "none")
         IN  IF r.ok
             THEN CommitLocations(key, order, i + 1, r.files, r.etcd,
                                  log \o Stamp(r.log, i), failAt, fault)
             ELSE [ok |-> FALSE, err |-> r.err, failIdx |-> i,
                   files |-> r.files, etcd |-> r.etcd,
                   log |-> log \o Stamp(r.log, i)]

\* The orders a set of locations can be iterated in (Locations is a hash set).
Orders(S) ==
    {o \in [1..Cardinality(S) -> S] :
        \A i, j \in 1..Cardinality(S) : i # j => o[i] # o[j]}

\* -------------------------------------------------------------------- state

VARIABLES
    key,           \* node -> PrivateKey                     (self.key)
    locations,     \* node -> set of Location                (self.locations)
    signees,       \* node -> sequence of Signee             (self.signees)
    assoc,         \* node -> public-key entity id or NoPub
    regenerated,   \* node -> BOOLEAN                        (self.regenerated)
    pubkeys,       \* entity id -> the PublicKey the entity holds
    rsa_key_pool,  \* bit size -> stack of pool entries
    files,         \* path -> content
    etcd,          \* store key -> content (InMemoryK8sEtcd)
    replaced,      \* node -> the key the last key replacement overwrote
    commits,       \* the commit futures in flight, polled in any order
    last           \* what the most recent call was, did and started from

vars ==
    <<key, locations, signees, assoc, regenerated, pubkeys, rsa_key_pool,
      files, etcd, replaced, commits, last>>

PubIds == {"pk1"}

\* The node as regenerate sees it.
Self(n) == [key |-> key[n], signees |-> signees[n],
            regenerated |-> regenerated[n]]
PubOf(n) == IF assoc[n] = NoPub THEN NonePub ELSE SomePub(pubkeys[assoc[n]])

\* ----------------------------------------------------------- initial states

\* What the scan found, one record per cluster layout:
\*   keys     node -> the key it holds
\*   locs     node -> the locations recorded for it. Locations of one node
\*            may share a file or a store resource, and so may two nodes'.
\*   signees  node -> the signees it signed
\*   pub      node -> its public-key entity, or NoPub
\*   zero     the number of entries in the pool's bucket for size 0
One(v) == [n \in {"n1"} |-> v]
Two(v, w) == [n \in {"n1", "n2"} |-> IF n = "n1" THEN v ELSE w]

Layouts ==
    {[keys |-> One(RsaKey(1, 2048)), zero |-> 0, pub |-> One("pk1"),
      locs |-> One({RawLoc("f1", "Pem", 1), RawLoc("f1", "Pem", 3),
                    K8sLoc("k1", "p1")}),
      signees |-> One(<<Signee(1, 0, 0), Signee(1, 5, 4096)>>)],
     [keys |-> One(EcKey(1)), zero |-> 1, pub |-> One(NoPub),
      locs |-> One({K8sLoc("k1", "p1"), K8sLoc("k1", "p3"),
                    YamlLoc("f2", "p2")}),
      signees |-> One(<<Signee(1, 0, 0)>>)],
     [keys |-> One(RsaKey(1, 4096)), zero |-> 0, pub |-> One("pk1"),
      locs |-> One({YamlLoc("f2", "p2"), RawLoc("f3", "Jwt", 0)}),
      signees |-> One(<<>>)],
     [keys |-> Two(RsaKey(1, 2048), EcKey(2)), zero |-> 0,
      pub |-> Two("pk1", NoPub),
      locs |-> Two({RawLoc("f1", "Pem", 1), K8sLoc("k1", "p1")},
                   {RawLoc("f1", "Pem", 2)}),
      signees |-> Two(<<Signee(1, 0, 0)>>, <<>>)],
     [keys |-> One(RsaKey(1, 1024)), zero |-> 0, pub |-> One(NoPub),
      locs |-> One({YamlLoc("f2", "p2")}),
      signees |-> One(<<>>)]}

\* Storage as scanned: every recorded location holds its node's key; the
\* slots of a node the layout does not have hold a certificate.
SlotPem(k, n) ==
    IF n \in DOMAIN k THEN PrivateKeyPem(k[n]) ELSE Cert(102)

InitFiles(k) ==
    [p \in Paths |->
        IF p = "f1"
        THEN Bundle(<<Cert(101), SlotPem(k, "n1"), SlotPem(k, "n2"),
                      SlotPem(k, "n1")>>)
        ELSE IF p = "f2"
        THEN Doc([q \in Ptrs |->
                    IF q = "p1" THEN SlotPem(k, "n2")
                    ELSE IF q = "p2" THEN SlotPem(k, "n1") ELSE NoPem],
                 "Yaml")
        ELSE Other]

InitEtcd(k) ==
    [r \in StoreKeys |->
        Doc([q \in Ptrs |->
                IF q = "p2" THEN SlotPem(k, "n2") ELSE SlotPem(k, "n1")],
            "Json")]

\* No commit future exists: every node's commit is still to be started.
\*   pc     node -> "idle" | "read" | "write" | "done": where the future is
\*   order  node -> the iteration order of its locations
\*   pos    node -> the position in order of the location being committed
\*   buf    node -> what the read of that location returned
\*   ft     node -> the fault the commit meets (position, kind)
\*   ok     node -> whether the commit returned Ok
\*   stale  node -> the files and resources it wrote from a read that another
\*          write had overtaken
\*   mixed  whether a future was polled while another was between its read
\*          and its write
\*   files0, etcd0  storage when the first commit started
NoCommits(nodes, fl, et) ==
    [pc |-> [n \in nodes |-> "idle"], order |-> [n \in nodes |-> <<>>],
     pos |-> [n \in nodes |-> 0], buf |-> [n \in nodes |-> Absent],
     ft |-> [n \in nodes |-> <<0, "read">>], ok |-> [n \in nodes |-> FALSE],
     stale |-> [n \in nodes |-> {}], mixed |-> FALSE,
     files0 |-> fl, etcd0 |-> et]

\* The pool as filled before the run: fresh keys, none of them a key of the
\* cluster. The bucket for size 0 is empty or holds one stray entry.
FreshKeys(bits, base, count) ==
    [i \in 1..count |-> PoolEntry(RsaKey(base + i, bits))]

InitPool(lay) ==
    [b \in BucketSizes |->
        IF b = 2048 THEN FreshKeys(2048, 20, PoolSize)
        ELSE IF b = 4096 THEN FreshKeys(4096, 40, PoolSize)
        ELSE FreshKeys(2048, 60, lay.zero)]

Init ==
    \E lay \in Layouts :
        /\ key = lay.keys
        /\ locations = lay.locs
        /\ signees = lay.signees
        /\ assoc = lay.pub
        /\ regenerated = [n \in DOMAIN lay.keys |-> FALSE]
        /\ pubkeys = [e \in PubIds |-> PublicKeyOf(lay.keys["n1"])]
        /\ rsa_key_pool = InitPool(lay)
        /\ files = InitFiles(lay.keys)
        /\ etcd = InitEtcd(lay.keys)
        /\ replaced = lay.keys
        /\ commits = NoCommits(DOMAIN lay.keys, files, etcd)
        /\ last = [op |-> "none"]

\* The nodes of the graph.
Nodes == DOMAIN key

\* ------------------------------------------------------------------ actions

\* The driver calls regenerate on node n.
Regenerate(n) ==
    \E in \in RegenInputs(Len(signees[n]), assoc[n] # NoPub) :
    \E r \in {regenerate(Self(n), rsa_key_pool, PubOf(n), in)} :
        /\ key' = [key EXCEPT ![n] = r.self.key]
        /\ signees' = [signees EXCEPT ![n] = r.self.signees]
        /\ regenerated' = [regenerated EXCEPT ![n] = r.self.regenerated]
        /\ rsa_key_pool' = r.pool
        /\ pubkeys' = IF r.pk.present
                      THEN [pubkeys EXCEPT ![assoc[n]] = r.pk.val]
                      ELSE pubkeys
        /\ replaced' = IF r.self.key # key[n]
                       THEN [replaced EXCEPT ![n] = key[n]]
                       ELSE replaced
        /\ last' = [op |-> "regenerate", node |-> n, ok |-> r.ok,
                    err |-> r.err, pre |-> Self(n), prePk |-> PubOf(n),
                    prePool |-> rsa_key_pool, numBits |-> r.numBits,
                    drew |-> r.drew, entry |-> r.entry,
                    invoked |-> r.invoked, failIdx |-> r.failIdx,
                    pkCalled |-> r.pkCalled, pkArg |-> r.pkArg,
                    wrapped |-> r.wrapped, steps |-> r.steps]
        /\ UNCHANGED <<locations, assoc, files, etcd, commits>>

\* The node as commit_to_etcd_and_disk sees it, with what its public-key link
\* leads to.
Node(n) ==
    [key |-> key[n], locations |-> locations[n], signees |-> signees[n],
     regenerated |-> regenerated[n], assoc |-> assoc[n], pk |-> PubOf(n)]

\* Variant: a commit clears the regenerated flag once the key is written.
CommitSelfCleared(node) == [node EXCEPT !.regenerated = FALSE]

\* The node after a commit: commit_to_etcd_and_disk and the two functions it
\* calls take &self and assign to none of its fields.
CommitSelf(node) == node

\* The faults one commit call can meet: none, or one at a position.
CommitFaults(nLocations) ==
    {<<0, "read">>}
    \cup {<<i, f>> : i \in 1..nLocations, f \in {"read", "write"}}

\* The driver calls commit_to_etcd_and_disk on node n and awaits it.
Commit(n) ==
    \E order \in Orders(locations[n]) :
    \E ft \in CommitFaults(Len(order)) :
    \E r \in {CommitLocations(key[n], order, 1, files, etcd, <<>>,
                              ft[1], ft[2])} :
    \E after \in {CommitSelf(Node(n))} :
        /\ files' = r.files
        /\ etcd' = r.etcd
        /\ key' = [key EXCEPT ![n] = after.key]
        /\ locations' = [locations EXCEPT ![n] = after.locations]
        /\ signees' = [signees EXCEPT ![n] = after.signees]
        /\ regenerated' = [regenerated EXCEPT ![n] = after.regenerated]
        /\ assoc' = [assoc EXCEPT ![n] = after.assoc]
        /\ pubkeys' = IF after.pk.present
                      THEN [pubkeys EXCEPT ![after.assoc] = after.pk.val]
                      ELSE pubkeys
        /\ last' = [op |-> "commit", node |-> n, ok |-> r.ok,
                    err |-> r.err, order |-> order,
                    failIdx |-> r.failIdx, log |-> r.log,
                    preFiles |-> files, preEtcd |-> etcd,
                    preNode |-> Node(n)]
        /\ UNCHANGED <<rsa_key_pool, replaced, commits>>

Next ==
    \/ \E n \in Nodes : Regenerate(n)
    \/ \E n \in Nodes : Commit(n)

Spec == Init /\ [][Next]_vars

\* ---------------------------------------------- commits running in parallel
\* commit_to_etcd_and_disk is an async fn: the caller may hold the futures of
\* two nodes and poll them in any order. Each location's commit has two await
\* points with storage access, the read (get_etcd_yaml, read_file_to_string,
\* get_filesystem_yaml) and the write (etcd put, tokio::fs::write).

\* The file or store resource a location is in.
Container(loc) == <<loc.kind, loc.at>>

ContentAt(fl, et, loc) == IF loc.kind = "K8s" THEN et[loc.at] ELSE fl[loc.at]

\* Variant: the content is rewritten from the file as it is when written.
WrittenFromCurrent(read, current) == current

\* What the written content is computed from: the text or document the read
\* returned, whatever the file or resource holds by the time of the write.
WrittenFrom(read, current) == read

\* Variant: the write reaches every file or resource of the store.
WriteBackEverywhere(store, at, content) == [p \in DOMAIN store |-> content]

\* tokio::fs::write(&path, ..) and etcd_client.put(&k8slocation.resource_location
\* .as_etcd_key(), ..): the one file or resource named is replaced whole.
WriteBack(store, at, content) == [store EXCEPT ![at] = content]

\* Two-node layouts after the regeneration pass: the nodes' locations share
\* nothing, one bundle, one store resource, or both.
ParLayouts ==
    {[keys |-> Two(RsaKey(1, 2048), RsaKey(2, 4096)), zero |-> 0,
      pub |-> Two(NoPub, NoPub), signees |-> Two(<<>>, <<>>),
      locs |-> Two({RawLoc("f1", "Pem", 1), K8sLoc("k1", "p1")},
                   {YamlLoc("f2", "p1")})],
     [keys |-> Two(RsaKey(1, 2048), RsaKey(2, 4096)), zero |-> 0,
      pub |-> Two(NoPub, NoPub), signees |-> Two(<<>>, <<>>),
      locs |-> Two({RawLoc("f1", "Pem", 1)}, {RawLoc("f1", "Pem", 2)})],
     [keys |-> Two(RsaKey(1, 2048), EcKey(2)), zero |-> 1,
      pub |-> Two(NoPub, NoPub), signees |-> Two(<<>>, <<>>),
      locs |-> Two({K8sLoc("k1", "p1")}, {K8sLoc("k1", "p2")})],
     [keys |-> Two(RsaKey(1, 2048), RsaKey(2, 2048)), zero |-> 0,
      pub |-> Two(NoPub, NoPub), signees |-> Two(<<>>, <<>>),
      locs |-> Two({RawLoc("f1", "Pem", 1), YamlLoc("f2", "p2")},
                   {RawLoc("f1", "Pem", 2), YamlLoc("f2", "p1")})]}

ParNodes == {"n1", "n2"}

\* The state after the regeneration pass: storage as scanned, and every node
\* regenerated once, n1 before n2, with nothing failing.
InitPar ==
    \E lay \in ParLayouts :
    \E r1 \in {regenerate([key |-> lay.keys["n1"], signees |-> <<>>,
                           regenerated |-> FALSE],
                          InitPool(lay), NonePub, RegenInput(TRUE, 0, FALSE))} :
    \E r2 \in {regenerate([key |-> lay.keys["n2"], signees |-> <<>>,
                           regenerated |-> FALSE],
                          r1.pool, NonePub, RegenInput(TRUE, 0, FALSE))} :
        /\ key = Two(r1.self.key, r2.self.key)
        /\ locations = lay.locs
        /\ signees = lay.signees
        /\ assoc = lay.pub
        /\ regenerated = Two(r1.self.regenerated, r2.self.regenerated)
        /\ pubkeys = [e \in PubIds |-> PublicKeyOf(lay.keys["n1"])]
        /\ rsa_key_pool = r2.pool
        /\ files = InitFiles(lay.keys)
        /\ etcd = InitEtcd(lay.keys)
        /\ replaced = lay.keys
        /\ commits = NoCommits(ParNodes, files, etcd)
        /\ last = [op |-> "none"]

\* The fault the commit of n meets at the location it is at.
FaultAt(n) ==
    IF commits.pos[n] = commits.ft[n][1] THEN commits.ft[n][2] ELSE "none"

\* Another node's commit is between the read and the write of a location.
OtherMidway(n) == \E m \in ParNodes \ {n} : commits.pc[m] = "write"

\* The caller creates the future of n's commit: the iteration order of the
\* locations is the hash set's.
StartCommit(n) ==
    /\ commits.pc[n] = "idle"
    /\ \E order \in Orders(locations[n]) :
       \E ft \in CommitFaults(Len(order)) :
          commits' = [commits EXCEPT
                         !.pc[n] = IF Len(order) = 0 THEN "done" ELSE "read",
                         !.ok[n] = Len(order) = 0,
                         !.order[n] = order, !.pos[n] = 1, !.ft[n] = ft]
    /\ UNCHANGED <<key, locations, signees, assoc, regenerated, pubkeys,
                   rsa_key_pool, files, etcd, replaced, last>>

\* The commit of n runs to the read of its current location. A location that
\* fails without reaching its write (non-PEM raw value, failed or empty read,
\* rewrite error) ends the commit with the error.
ReadStep(n) ==
    /\ commits.pc[n] = "read"
    /\ LET loc == commits.order[n][commits.pos[n]] IN
       \E r \in {CommitLocation(key[n], files, etcd, loc, FaultAt(n))} :
          commits' =
              IF \E j \in DOMAIN r.log : r.log[j].act = "write"
              THEN [commits EXCEPT !.pc[n] = "write",
                                   !.buf[n] = ContentAt(files, etcd, loc),
                                   !.mixed = @ \/ OtherMidway(n)]
              ELSE [commits EXCEPT !.pc[n] = "done", !.ok[n] = FALSE,
                                   !.mixed = @ \/ OtherMidway(n)]
    /\ UNCHANGED <<key, locations, signees, assoc, regenerated, pubkeys,
                   rsa_key_pool, files, etcd, replaced, last>>

\* The commit of n runs from the read to the write of its current location:
\* the content is rewritten from what was read and written to the one file or
\* resource; then the loop moves on, or the commit returns.
WriteStep(n) ==
    /\ commits.pc[n] = "write"
    /\ LET loc == commits.order[n][commits.pos[n]]
           cur == ContentAt(files, etcd, loc)
           src == WrittenFrom(commits.buf[n], cur)
           fv == IF loc.kind = "File" THEN [files EXCEPT ![loc.at] = src]
                 ELSE files
           ev == IF loc.kind = "K8s" THEN [etcd EXCEPT ![loc.at] = src]
                 ELSE etcd
       IN
       \E r \in {CommitLocation(key[n], fv, ev, loc, FaultAt(n))} :
          /\ files' = IF r.ok /\ loc.kind = "File"
                      THEN WriteBack(files, loc.at, r.files[loc.at])
                      ELSE files
          /\ etcd' = IF r.ok /\ loc.kind = "K8s"
                     THEN WriteBack(etcd, loc.at, r.etcd[loc.at])
                     ELSE etcd
          /\ commits' =
                [commits EXCEPT
                    !.pc[n] = IF r.ok /\ commits.pos[n] < Len(commits.order[n])
                              THEN "read" ELSE "done",
                    !.ok[n] = r.ok /\ commits.pos[n] = Len(commits.order[n]),
                    !.pos[n] = IF r.ok THEN @ + 1 ELSE @,
                    !.buf[n] = Absent,
                    !.stale[n] = IF r.ok /\ commits.buf[n] # cur
                                 THEN @ \cup {Container(loc)} ELSE @,
                    !.mixed = @ \/ OtherMidway(n)]
    /\ UNCHANGED <<key, locations, signees, assoc, regenerated, pubkeys,
                   rsa_key_pool, replaced, last>>

NextPar ==
    \/ \E n \in ParNodes : StartCommit(n)
    \/ \E n \in ParNodes : ReadStep(n)
    \/ \E n \in ParNodes : WriteStep(n)

SpecPar == InitPar /\ [][NextPar]_vars

\* --------------------------------------------------------------- properties

\* The PEM block a key is stored as: "RSA PRIVATE KEY" over the PKCS#1 bytes
\* of an RSA key, "EC PRIVATE KEY" over the bytes of an EC key.
StoredPem(k) ==
    [label |-> IF k.fam = "Rsa" THEN "RSA PRIVATE KEY" ELSE "EC PRIVATE KEY",
     der |-> k.id]

\* The PEM block found at a location in the given storage (NoPem: none).
SlotValue(fl, et, loc) ==
    IF loc.kind = "K8s"
    THEN IF et[loc.at].form = "yaml" THEN et[loc.at].doc[loc.ptr] ELSE NoPem
    ELSE IF loc.shape = "Yaml"
    THEN IF fl[loc.at].form = "yaml" THEN fl[loc.at].doc[loc.ptr] ELSE NoPem
    ELSE IF fl[loc.at].form = "bundle" /\ loc.idx < Len(fl[loc.at].blocks)
    THEN fl[loc.at].blocks[loc.idx + 1]
    ELSE NoPem

LastIs(op) == last.op = op
RegenerateReturnedOk == LastIs("regenerate") /\ last.ok
CommitReturnedOk == LastIs("commit") /\ last.ok

\* C1: after a regenerate that replaced the key and a commit that returned
\* Ok, every location of the node holds the PEM of the new key and none holds
\* the PEM of the key that was replaced, also when locations share a file or
\* a store resource.
C1_CommitReplaysNewKey ==
    (CommitReturnedOk /\ regenerated[last.node]) =>
        \A loc \in locations[last.node] :
            /\ SlotValue(files, etcd, loc) = StoredPem(key[last.node])
            /\ SlotValue(files, etcd, loc) # StoredPem(replaced[last.node])

\* C1 witness: such a commit on a node with two locations in one file.
C1_Witness ==
    /\ CommitReturnedOk /\ regenerated[last.node]
    /\ \E a, b \in locations[last.node] : a # b /\ a.at = b.at
    /\ \E loc \in locations[last.node] :
          SlotValue(last.preFiles, last.preEtcd, loc)
              = StoredPem(replaced[last.node])

\* C2: after a regenerate that returned Ok, regenerated is true and the key
\* differs from the key the node held when the call started.
C2_RegenerateReplacesKey ==
    RegenerateReturnedOk =>
        /\ regenerated[last.node]
        /\ key[last.node] # last.pre.key

\* C2 witness: a regenerate has returned Ok on an RSA node.
C2_Witness == RegenerateReturnedOk /\ last.pre.key.fam = "Rsa"

\* The pool had no entry for the bit size computed from the node's key.
PoolMissed ==
    /\ LastIs("regenerate")
    /\ ~PoolHas(last.prePool, IF last.pre.key.fam = "Rsa"
                              THEN last.pre.key.bits ELSE 0)

\* C3: when the pool has no entry for the computed bit size, regenerate
\* returns an error and the node is as it was: key and regenerated unchanged,
\* no signee invoked or changed, the public key not regenerated, no draw.
C3_PoolMissLeavesNode ==
    PoolMissed =>
        /\ ~last.ok
        /\ key[last.node] = last.pre.key
        /\ regenerated[last.node] = last.pre.regenerated
        /\ last.invoked = 0
        /\ signees[last.node] = last.pre.signees
        /\ ~last.pkCalled
        /\ PubOf(last.node) = last.prePk
        /\ rsa_key_pool = last.prePool

\* C3 witness: a pool miss reported as "RSA pool empty" on a node that has
\* signees and a public key.
C3_Witness ==
    /\ PoolMissed /\ last.err = "RSA pool empty"
    /\ Len(signees[last.node]) > 0 /\ assoc[last.node] # NoPub

\* C4: after a regenerate that returned Ok, every signee was invoked and
\* carries the signature of the key-pair handle of the pool entry whose
\* private key is now the node's key.
C4_SigneesSignedByNewKey ==
    RegenerateReturnedOk =>
        /\ last.invoked = Len(signees[last.node])
        /\ last.entry.priv.id = key[last.node].id
        /\ \A i \in 1..Len(signees[last.node]) :
              /\ signees[last.node][i].signedBy = last.entry.pair
              /\ signees[last.node][i].signedBy = key[last.node].id

\* C4 witness: a regenerate returned Ok on a node with two signees, one of
\* which drew a key of its own from the pool during the call.
C4_Witness ==
    /\ RegenerateReturnedOk
    /\ Len(signees[last.node]) = 2
    /\ \E i \in 1..2 :
          signees[last.node][i].ownKey # last.pre.signees[i].ownKey

\* C5: after a regenerate that returned Ok on a node with an associated
\* public key, the entity was regenerated from the key now in self.key and
\* holds that key's public half.
C5_PublicKeyPaired ==
    (RegenerateReturnedOk /\ assoc[last.node] # NoPub) =>
        /\ last.pkCalled
        /\ last.pkArg = key[last.node]
        /\ pubkeys[assoc[last.node]].of = key[last.node].id
        /\ pubkeys[assoc[last.node]].fam = key[last.node].fam
        /\ pubkeys[assoc[last.node]].len * 8 - DerOverheadBits
              = key[last.node].bits

\* C5 witness: such a call, and the entity held the old key's public half.
C5_Witness ==
    /\ RegenerateReturnedOk /\ assoc[last.node] # NoPub
    /\ last.prePk.val.of = last.pre.key.id
    /\ last.pre.key # key[last.node]

\* A signee's regenerate returned an error during the last call.
SigneeFailed == LastIs("regenerate") /\ last.failIdx > 0

\* C6 as stated: when a signee's regenerate fails, key, regenerated, the
\* associated public key and every signee are as they were before the call.
C6_Original_NoPartialCommit ==
    SigneeFailed =>
        /\ ~last.ok
        /\ key[last.node] = last.pre.key
        /\ regenerated[last.node] = last.pre.regenerated
        /\ PubOf(last.node) = last.prePk
        /\ signees[last.node] = last.pre.signees

\* C6 amended: when a signee's regenerate fails the call returns an error
\* with key, regenerated and the associated public key as they were before
\* the call, and every signee after the failing one as it was; the signees
\* before the failing one are not restored.
C6_FailureKeepsKeyAndLaterSignees ==
    SigneeFailed =>
        /\ ~last.ok
        /\ key[last.node] = last.pre.key
        /\ regenerated[last.node] = last.pre.regenerated
        /\ PubOf(last.node) = last.prePk
        /\ Len(signees[last.node]) = Len(last.pre.signees)
        /\ \A i \in 1..Len(signees[last.node]) :
              i > last.failIdx => signees[last.node][i] = last.pre.signees[i]

\* C6 witness: the second signee failed after the first had been re-signed.
C6_Witness ==
    /\ SigneeFailed /\ last.failIdx = 2
    /\ signees[last.node][1] # last.pre.signees[1]

\* C7: when the signee at position i fails, the error is returned at once
\* with no rollback: the signees before i carry the signature of the drawn
\* handle, those after i were never invoked, and key, regenerated and the
\* associated public key are unchanged (the entity was not called).
C7_SigneeFailureNoRollback ==
    SigneeFailed =>
        /\ ~last.ok /\ last.err = "signee"
        /\ last.invoked = last.failIdx
        /\ \A i \in 1..Len(signees[last.node]) :
              /\ i < last.failIdx =>
                    signees[last.node][i].signedBy = last.entry.pair
              /\ i > last.failIdx =>
                    signees[last.node][i] = last.pre.signees[i]
        /\ key[last.node] = last.pre.key
        /\ regenerated[last.node] = last.pre.regenerated
        /\ ~last.pkCalled
        /\ PubOf(last.node) = last.prePk

\* C7 witness: the first of two signees failed on a node that has a public
\* key, and the pool entry drawn for the node is gone from the pool.
C7_Witness ==
    /\ SigneeFailed /\ last.failIdx = 1 /\ Len(signees[last.node]) = 2
    /\ assoc[last.node] # NoPub
    /\ last.drew /\ rsa_key_pool # last.prePool

\* A commit returned an error: the location at position failIdx failed.
CommitFailed == LastIs("commit") /\ ~last.ok

\* C8: a commit stops at the first location that fails: no location after it
\* in iteration order is read or written, the error is returned, and the
\* locations before it hold the new content, which is not rolled back.
C8_CommitStopsAtFirstFailure ==
    CommitFailed =>
        /\ last.failIdx \in 1..Len(last.order)
        /\ last.err # ""
        /\ \A e \in 1..Len(last.log) : last.log[e].pos <= last.failIdx
        /\ \A j \in 1..Len(last.order) :
              /\ j < last.failIdx =>
                    SlotValue(files, etcd, last.order[j])
                        = StoredPem(key[last.node])
              /\ j > last.failIdx =>
                    SlotValue(files, etcd, last.order[j])
                        = SlotValue(last.preFiles, last.preEtcd, last.order[j])

\* C8 witness: the second of three locations failed after the first had
\* been given the new key, and the third still holds the old one.
C8_Witness ==
    /\ CommitFailed /\ last.failIdx = 2 /\ Len(last.order) = 3
    /\ regenerated[last.node]
    /\ SlotValue(last.preFiles, last.preEtcd, last.order[1])
          # SlotValue(files, etcd, last.order[1])
    /\ SlotValue(files, etcd, last.order[3]) # StoredPem(key[last.node])

\* A raw location whose value type is not Pem.
RawNonPem(loc) == loc.kind = "File" /\ loc.shape = "Raw" /\ loc.vtype # "Pem"

\* The commit reached position j (no earlier location failed).
Reached(j) == last.failIdx = 0 \/ last.failIdx >= j

CommittedIndices(p) ==
    {last.order[j].idx : j \in {i \in 1..Len(last.order) :
        /\ last.order[i].kind = "File" /\ last.order[i].shape = "Raw"
        /\ last.order[i].at = p
        /\ (last.ok \/ i < last.failIdx)}}

\* C10: committing raw-PEM-bundle locations replaces only the blocks at the
\* recorded indices with the new key's block: the file keeps its number of
\* blocks and every block at another index is the same before and after.
C10_BundleOnlyIndexReplaced ==
    LastIs("commit") =>
        \A p \in Paths :
            last.preFiles[p].form = "bundle" =>
                /\ files[p].form = "bundle"
                /\ Len(files[p].blocks) = Len(last.preFiles[p].blocks)
                /\ \A b \in 1..Len(files[p].blocks) :
                      IF (b - 1) \in CommittedIndices(p)
                      THEN files[p].blocks[b] = StoredPem(key[last.node])
                      ELSE files[p].blocks[b] = last.preFiles[p].blocks[b]

\* C10 witness: a commit replaced one block of a bundle with a new key,
\* a block of another node's key and a certificate sit beside it.
C10_Witness ==
    /\ LastIs("commit")
    /\ \E p \in Paths :
          /\ CommittedIndices(p) # {}
          /\ \E b \in 1..Len(files[p].blocks) :
                files[p].blocks[b] # last.preFiles[p].blocks[b]
          /\ \E b \in 1..Len(files[p].blocks) :
                /\ (b - 1) \notin CommittedIndices(p)
                /\ files[p].blocks[b].label = "CERTIFICATE"

\* C11: a commit never changes the node: after any commit call, whether it
\* returned Ok or an error, key, locations, signees, regenerated and the
\* associated public key are what they were before the call.
C11_CommitLeavesNode ==
    LastIs("commit") =>
        /\ key[last.node] = last.preNode.key
        /\ locations[last.node] = last.preNode.locations
        /\ signees[last.node] = last.preNode.signees
        /\ regenerated[last.node] = last.preNode.regenerated
        /\ assoc[last.node] = last.preNode.assoc
        /\ PubOf(last.node) = last.preNode.pk

\* C11 witness: a commit of a regenerated node with signees and a public key
\* failed after it had changed storage.
C11_Witness ==
    /\ CommitFailed /\ last.failIdx > 1
    /\ regenerated[last.node] /\ assoc[last.node] # NoPub
    /\ Len(signees[last.node]) > 0
    /\ files # last.preFiles

\* C13: a regenerate that returned Ok leaves an RSA key in self.key whatever
\* the family of the key before; when that key was an EC key the pool was
\* asked for bit size 0 and the entry it gave for 0 was installed.
C13_RegenerateInstallsRsa ==
    RegenerateReturnedOk =>
        /\ key[last.node].fam = "Rsa"
        /\ last.pre.key.fam = "Ec" =>
              /\ last.numBits = 0
              /\ PoolHas(last.prePool, 0)
              /\ key[last.node].id = PoolTop(last.prePool, 0).priv.id

\* C13 witness: a regenerate returned Ok on a node that held an EC key.
C13_Witness ==
    /\ RegenerateReturnedOk /\ last.pre.key.fam = "Ec"
    /\ key[last.node].fam = "Rsa"

\* A regenerate call on an RSA key got past the derivation of the old
\* public key.
RsaSized ==
    /\ LastIs("regenerate") /\ last.pre.key.fam = "Rsa"
    /\ last.err # "derive"

\* C14: for an RSA key the pool is asked for the encoded length of the old
\* public key times 8 minus 304, the entry drawn is the one the pool holds
\* for that size, and the key installed has a public key whose encoded
\* length L satisfies L * 8 - 304 = the size asked for.
C14_BitSizeRoundTrip ==
    RsaSized =>
        /\ last.numBits = EncodedLen(last.pre.key.bits) * 8 - 304
        /\ last.drew => last.entry = PoolTop(last.prePool, last.numBits)
        /\ key[last.node] # last.pre.key =>
              EncodedLen(key[last.node].bits) * 8 - 304 = last.numBits

\* C14 witness: a 4096-bit RSA key was replaced, the pool asked for 4096.
C14_Witness ==
    /\ RsaSized /\ last.ok
    /\ last.pre.key.bits = 4096 /\ last.numBits = 4096
    /\ key[last.node] # last.pre.key

ClaimedOrder ==
    LET old == last.pre.key
        oldPub == PublicKeyOf(old)
        new == RsaKey(last.entry.priv.id, last.entry.priv.bits)
        newPub == PublicKeyOf(new)
    IN  <<Step("derive", old, oldPub, 0), Step("draw", old, oldPub, last.numBits)>>
        \o [j \in 1..Len(last.pre.signees) |-> Step("signee", old, oldPub, j)]
        \o <<Step("assign", new, newPub, 0)>>
        \o (IF last.prePk.present THEN <<Step("pub", new, newPub, 0)>>
            ELSE <<>>)

\* C15: a regenerate call performs its operations in the claimed order: a
\* call that returned Ok performed all of them, in that order, and a call
\* that returned an error performed a prefix of them, so that nothing is
\* done out of turn.
C15_RegenerateOrder ==
    LastIs("regenerate") =>
        /\ Len(last.steps) <= Len(ClaimedOrder)
        /\ last.steps = SubSeq(ClaimedOrder, 1, Len(last.steps))
        /\ last.ok => last.steps = ClaimedOrder
        /\ Cardinality({i \in DOMAIN last.steps :
                            last.steps[i].op = "draw"}) <= 1

\* C15 witness: a call with two signees and a public-key entity returned Ok,
\* so all six operations were performed.
C15_Witness ==
    /\ RegenerateReturnedOk /\ Len(last.pre.signees) = 2
    /\ last.prePk.present /\ Len(last.steps) = 6
    /\ last.steps[6].op = "pub" /\ last.steps[6].key # last.pre.key

\* The public-key entity of the node was asked to regenerate and failed.
PublicKeyFailed == LastIs("regenerate") /\ last.pkCalled /\ ~last.ok

\* C16: when the public-key entity's regenerate fails, regenerate returns
\* the error with the node already changed: self.key is the key drawn,
\* regenerated is true, every signee is signed by the drawn pair, and the
\* entity still holds what it held, which is not the public half of self.key.
C16_PublicKeyFailureLeavesNodeMutated ==
    PublicKeyFailed =>
        /\ last.err = "public key"
        /\ key[last.node].id = last.entry.priv.id
        /\ key[last.node] # last.pre.key
        /\ regenerated[last.node]
        /\ \A i \in 1..Len(signees[last.node]) :
              signees[last.node][i].signedBy = last.entry.pair
        /\ PubOf(last.node) = last.prePk
        /\ PubOf(last.node).val # PublicKeyOf(key[last.node])

\* C16 witness: the entity failed on a node with two signees that had not
\* been regenerated before.
C16_Witness ==
    /\ PublicKeyFailed /\ ~last.pre.regenerated
    /\ Len(signees[last.node]) = 2 /\ regenerated[last.node]

\* The last regenerate call reached the assignment of self.key.
ReachedReplacement ==
    \E i \in DOMAIN last.steps : last.steps[i].op = "assign"

\* What holds of the regenerated flag in every state: after a regenerate
\* call it is true exactly when it was true before or the call reached the
\* key replacement; it is true exactly for the nodes whose key has been
\* replaced; and a call on a node whose flag was true asked the pool like
\* any other, failed only for want of an entry, a signee or the entity, and
\* on Ok installed the key it drew in place of the one before.
FlagState ==
    /\ LastIs("regenerate") =>
          /\ regenerated[last.node]
                <=> (last.pre.regenerated \/ ReachedReplacement)
          /\ last.pre.regenerated /\ last.err # "derive" =>
                /\ last.drew <=> PoolHas(last.prePool, last.numBits)
                /\ last.err \in {"", "RSA pool empty", "signee", "public key"}
                /\ last.ok => /\ ReachedReplacement
                              /\ key[last.node].id = last.entry.priv.id
                              /\ key[last.node] # last.pre.key
    /\ \A n \in Nodes : regenerated[n] <=> key[n] # replaced[n]

\* C17: the regenerated flag never goes from true back to false in any step,
\* regenerate or commit; it is true exactly when some regenerate call on the
\* node reached the key replacement; and a regenerate on a node whose flag
\* is true is not rejected, draws another key and replaces self.key again.
C17_RegeneratedFlagMonotonic ==
    /\ [][\A n \in DOMAIN regenerated : regenerated[n] => regenerated'[n]]_vars
    /\ []FlagState

\* C17 witness: a second regenerate on a node returned Ok and replaced the
\* key the first one had installed.
C17_Witness ==
    /\ RegenerateReturnedOk /\ last.pre.regenerated
    /\ replaced[last.node] = last.pre.key
    /\ key[last.node] # last.pre.key

\* Both commits have returned.
AllDone == \A n \in ParNodes : commits.pc[n] = "done"

\* The locations of the two nodes share no store key and no file path.
Disjoint ==
    \A la \in locations["n1"], lb \in locations["n2"] :
        Container(la) # Container(lb)

\* Storage and results when the commit of a runs to its end before the commit
\* of b starts, from the same storage, in the same orders, with the same faults.
OneAfterTheOther(a, b) ==
    LET ra == CommitLocations(key[a], commits.order[a], 1, commits.files0,
                              commits.etcd0, <<>>, commits.ft[a][1],
                              commits.ft[a][2])
        rb == CommitLocations(key[b], commits.order[b], 1, ra.files, ra.etcd,
                              <<>>, commits.ft[b][1], commits.ft[b][2])
    IN  [files |-> rb.files, etcd |-> rb.etcd,
         ok |-> [n \in ParNodes |-> IF n = a THEN ra.ok ELSE rb.ok]]

\* C12: when the locations of two nodes share no store key and no file path,
\* their two commits, however their reads and writes interleave, leave the
\* files and the store as the two commits run one after the other do, in
\* either order, and return what they return then.
C12_DisjointCommitsCommute ==
    (AllDone /\ Disjoint) =>
        \A a, b \in ParNodes :
            a # b => \E s \in {OneAfterTheOther(a, b)} :
                        /\ files = s.files
                        /\ etcd = s.etcd
                        /\ commits.ok = s.ok

\* C12 witness: two commits on disjoint locations returned Ok after one ran
\* between the read and the write of the other, and changed files and store.
C12_Witness ==
    /\ AllDone /\ Disjoint /\ commits.mixed
    /\ \A n \in ParNodes : commits.ok[n]
    /\ files # commits.files0 /\ etcd # commits.etcd0

\* C19: the content a commit writes to a file or store resource comes from
\* its earlier read. When two nodes have locations in one file or resource
\* and a wrote it from a read that b's write had overtaken, the file ends
\* with a's new key and b's old key; and a node whose commit returned Ok finds
\* a location without its key only in this way.
C19_StaleWriteLosesUpdate ==
    \A a, b \in ParNodes :
        a # b =>
            \A la \in locations[a], lb \in locations[b] :
                Container(la) = Container(lb) =>
                    /\ Container(la) \in commits.stale[a] =>
                          /\ SlotValue(files, etcd, lb) = StoredPem(replaced[b])
                          /\ SlotValue(files, etcd, la) = StoredPem(key[a])
                    /\ ( /\ commits.pc[b] = "done" /\ commits.ok[b]
                         /\ SlotValue(files, etcd, lb) # StoredPem(key[b]) )
                          => Container(la) \in commits.stale[a]

\* C19 witness: both commits returned Ok, and n2's block of the bundle holds
\* the key n2 had before it was regenerated, n1's block n1's new key.
C19_Witness ==
    /\ AllDone /\ commits.ok["n1"] /\ commits.ok["n2"]
    /\ <<"File", "f1">> \in commits.stale["n1"]
    /\ \E lb \in locations["n2"] :
          /\ Container(lb) = <<"File", "f1">>
          /\ SlotValue(files, etcd, lb) = StoredPem(replaced["n2"])
          /\ replaced["n2"] # key["n2"]

====
